---- MODULE Spec2Model ----
(***************************************************************************)
(* Model of geomodule/mesh.py: decoding of Japanese area-mesh codes into   *)
(* cell corner coordinates, and the 3rd-level -> JMA 5km code transcoder.  *)
(*                                                                         *)
(* A text is a sequence of one-character strings.  A float holding a       *)
(* number of degrees is modelled by its exact value in fixed point (whole  *)
(* degrees plus a fraction counted in 1/Unit degree); a float returned by  *)
(* round(x, n) is modelled by the integer x * 10^n.  Every exact value met *)
(* here lies at least 1/6 of the last rounded digit away from a rounding   *)
(* tie, far more than the binary representation error of a double, so the  *)
(* rounded results of the model are the rounded results of the code.       *)
(***************************************************************************)
EXTENDS Integers, Sequences, FiniteSets, TLC

VARIABLES code, fn, ret

vars == <<code, fn, ret>>

(***************************************************************************)
(* Bounds of the input domain.                                             *)
(***************************************************************************)
RowSpan == 0
ColSpan == 0
TailMax == 4

(***************************************************************************)
(* Text primitives of the language runtime used by mesh.py.                *)
(***************************************************************************)
DigitChars == <<"0", "1", "2", "3", "4", "5", "6", "7", "8", "9">>

IsDigit(ch) == \E i \in 1..10 : DigitChars[i] = ch

DigitVal(ch) == (CHOOSE i \in 1..10 : DigitChars[i] = ch) - 1

DigitChar(d) == DigitChars[d + 1]

AllDigits(s) == \A i \in 1..Len(s) : IsDigit(s[i])

Min(a, b) == IF a < b THEN a ELSE b

Max(a, b) == IF a > b THEN a ELSE b

\* s[a:b] of the code, for 0 <= a <= b
Slice(s, a, b) == SubSeq(s, a + 1, Min(b, Len(s)))

\* as ljust, but padding on the left (str.rjust)
ljust_left(s, width) ==
    IF Len(s) >= width THEN s
    ELSE [i \in 1..(width - Len(s)) |-> "0"] \o s

\* str.ljust(width, '0'): pad on the right, never truncate
ljust(s, width) ==
    IF Len(s) >= width THEN s
    ELSE s \o [i \in 1..(width - Len(s)) |-> "0"]

RECURSIVE Decimal(_)
\* decimal digits of n >= 0, no leading zeros
Decimal(n) ==
    IF n < 10 THEN <<DigitChar(n)>>
    ELSE Decimal(n \div 10) \o <<DigitChar(n % 10)>>

\* '{:0<width>d}'.format(n): sign-aware zero padding to a MINIMUM width
FormatD(n, width) ==
    LET sign == IF n < 0 THEN <<"-">> ELSE <<>>
        digs == Decimal(IF n < 0 THEN -n ELSE n)
        pad  == Max(0, width - Len(sign) - Len(digs))
    IN  sign \o [i \in 1..pad |-> "0"] \o digs

\* str(code): a text is itself, an integer is its decimal representation
str(c) == IF c.isInt THEN FormatD(c.num, 1) ELSE c.text

RECURSIVE LStrip(_)
LStrip(s) == IF s # <<>> /\ Head(s) = " " THEN LStrip(Tail(s)) ELSE s

RECURSIVE RStrip(_)
RStrip(s) ==
    IF s # <<>> /\ s[Len(s)] = " " THEN RStrip(SubSeq(s, 1, Len(s) - 1)) ELSE s

RECURSIVE DigitsValue(_)
DigitsValue(s) ==
    IF s = <<>> THEN 0
    ELSE 10 * DigitsValue(SubSeq(s, 1, Len(s) - 1)) + DigitVal(s[Len(s)])

\* int(text): surrounding blanks are stripped, one leading sign is accepted,
\* what is left must be one or more digits; anything else is a ValueError
IntBody(s) ==
    LET t == RStrip(LStrip(s))
    IN  IF t # <<>> /\ Head(t) \in {"+", "-"} THEN Tail(t) ELSE t

\* as IntParses, but accepting digits only: no sign, no surrounding blank
IntParses_strict(s) == s # <<>> /\ AllDigits(s)

IntParses(s) == IntBody(s) # <<>> /\ AllDigits(IntBody(s))

IntValue(s) ==
    LET t == RStrip(LStrip(s))
    IN  IF Head(t) = "-" THEN -DigitsValue(IntBody(s)) ELSE DigitsValue(IntBody(s))

(***************************************************************************)
(* Outcome of a call: a returned text, returned points, or an exception.   *)
(***************************************************************************)
Raise(e) == [exc |-> e, text |-> <<>>, pts |-> <<>>]

ReturnText(t) == [exc |-> "none", text |-> t, pts |-> <<>>]

ReturnPts(p) == [exc |-> "none", text |-> <<>>, pts |-> p]

\* the six positional fields of an 8-character code, as the texts handed to int()
Fields(c) ==
    [iy1 |-> Slice(c, 0, 2), ix1 |-> Slice(c, 2, 4), iy2 |-> Slice(c, 4, 5),
     ix2 |-> Slice(c, 5, 6), iy3 |-> Slice(c, 6, 7), ix3 |-> Slice(c, 7, 8)]

FieldsParse(c) ==
    LET f == Fields(c)
    IN  /\ IntParses(f.iy1) /\ IntParses(f.ix1) /\ IntParses(f.iy2)
        /\ IntParses(f.ix2) /\ IntParses(f.iy3) /\ IntParses(f.ix3)

Indices(c) ==
    LET f == Fields(c)
    IN  [iy1 |-> IntValue(f.iy1), ix1 |-> IntValue(f.ix1), iy2 |-> IntValue(f.iy2),
         ix2 |-> IntValue(f.ix2), iy3 |-> IntValue(f.iy3), ix3 |-> IntValue(f.ix3)]

(***************************************************************************)
(* ms3_to_msjma5k                                                          *)
(***************************************************************************)
\* as nyms3, but snapping the row index up instead of down
nyms3_up(iy1, iy2, iy3) == ((iy1 * 80 + iy2 * 10 + iy3 + 5) \div 6) * 6

\* line 31: the row index snapped down to a multiple of 6
nyms3(iy1, iy2, iy3) == ((iy1 * 80 + iy2 * 10 + iy3) \div 6) * 6

\* as snap_ix3, but keeping the quotient without scaling it back by 5
snap_ix3_quotient(ix3) == ix3 \div 5

\* line 35: the last column digit snapped down to a multiple of 5
snap_ix3(ix3) == (ix3 \div 5) * 5

\* as format_msjma5k, but with the first field written as '{:01d}'
format_msjma5k_narrow(iy1, ix1, iy2, ix2, iy3, ix3) ==
    FormatD(iy1, 1) \o FormatD(ix1, 2) \o FormatD(iy2, 1)
        \o FormatD(ix2, 1) \o FormatD(iy3, 1) \o FormatD(ix3, 1)

\* line 37: '{:02d}{:02d}{:01d}{:01d}{:01d}{:01d}'.format(...)
format_msjma5k(iy1, ix1, iy2, ix2, iy3, ix3) ==
    FormatD(iy1, 2) \o FormatD(ix1, 2) \o FormatD(iy2, 1)
        \o FormatD(ix2, 1) \o FormatD(iy3, 1) \o FormatD(ix3, 1)

ms3_to_msjma5k(ms3code) ==
    LET c == ljust(str(ms3code), 8)
    IN  IF ~FieldsParse(c) THEN Raise("ValueError")
        ELSE LET i   == Indices(c)
                 n   == nyms3(i.iy1, i.iy2, i.iy3)
                 iy1 == n \div 80
                 iy2 == (n % 80) \div 10
                 iy3 == (n % 80) % 10
                 ix3 == snap_ix3(i.ix3)
             IN  ReturnText(format_msjma5k(iy1, i.ix1, iy2, i.ix2, iy3, ix3))

(***************************************************************************)
(* Degrees in fixed point: deg whole degrees plus frac / Unit of a degree, *)
(* 0 <= frac < Unit.  Unit is a multiple of every denominator mesh.py      *)
(* uses (80, 120, 160, 240, 320, 480, 16, 20) and of 10^7.                 *)
(***************************************************************************)
Unit == 3 * 10^7

RECURSIVE GCD(_, _)
GCD(a, b) == IF b = 0 THEN a ELSE GCD(b, a % b)

\* the exact value p / q, q > 0
FromRatio(p, q) ==
    LET g  == GCD(IF p < 0 THEN -p ELSE p, q)
        pp == p \div g
        qq == q \div g
    IN  [deg |-> pp \div qq, frac |-> (pp % qq) * (Unit \div qq)]

FromInt(n) == [deg |-> n, frac |-> 0]

Plus(a, b) ==
    [deg |-> a.deg + b.deg + ((a.frac + b.frac) \div Unit),
     frac |-> (a.frac + b.frac) % Unit]

\* nearest integer to a / b (a >= 0, b > 0), ties to the even neighbour
RoundHalfEven(a, b) ==
    LET q == a \div b
        r == a % b
    IN  IF 2 * r < b THEN q
        ELSE IF 2 * r > b THEN q + 1
        ELSE IF q % 2 = 0 THEN q ELSE q + 1

\* round(x, ndigits), as the integer round(x, ndigits) * 10^ndigits
round(x, ndigits) ==
    x.deg * 10^ndigits + RoundHalfEven(x.frac, Unit \div 10^ndigits)

\* the degrees held by a float that round(_, ndigits) returned
FromRounded(n, ndigits) ==
    [deg |-> n \div 10^ndigits, frac |-> (n % 10^ndigits) * (Unit \div 10^ndigits)]

\* as Corners, but listing the corners clockwise: SW, SE, NE, NW
Corners_clockwise(lon, lat, dx, dy, ndigits) ==
    LET x1 == round(lon, ndigits)
        x2 == round(Plus(lon, dx), ndigits)
        y1 == round(lat, ndigits)
        y2 == round(Plus(lat, dy), ndigits)
    IN  ReturnPts(<< <<x1, y1>>, <<x2, y1>>, <<x2, y2>>, <<x1, y2>> >>)

\* the closing lines of every *_to_coord: round the four bounds, list the corners
Corners(lon, lat, dx, dy, ndigits) ==
    LET x1 == round(lon, ndigits)
        x2 == round(Plus(lon, dx), ndigits)
        y1 == round(lat, ndigits)
        y2 == round(Plus(lat, dy), ndigits)
    IN  ReturnPts(<< <<x1, y1>>, <<x1, y2>>, <<x2, y2>>, <<x2, y1>> >>)

AsText(t) == [isInt |-> FALSE, num |-> 0, text |-> t]

(***************************************************************************)
(* ms3_to_coord                                                            *)
(***************************************************************************)
ms3_to_coord(c0, ndigits) ==
    LET c == ljust(str(c0), 8)
    IN  IF ~FieldsParse(c) THEN Raise("ValueError")
        ELSE LET i   == Indices(c)
                 lon == Plus(FromRatio((i.ix1 * 80 + i.ix2 * 10 + i.ix3) * 45, 3600),
                             FromInt(100))
                 lat == FromRatio((i.iy1 * 80 + i.iy2 * 10 + i.iy3) * 30, 3600)
             IN  Corners(lon, lat, FromRatio(45, 3600), FromRatio(30, 3600), ndigits)

\* a call ms3_to_coord(c0, <keyword>=value): binding the keyword to one of the
\* parameters of ms3_to_coord, a TypeError when there is no such parameter
ms3_to_coord_kw(c0, keyword, value) ==
    IF keyword # "ndigits" THEN Raise("TypeError") ELSE ms3_to_coord(c0, value)

(***************************************************************************)
(* ms4_to_coord                                                            *)
(***************************************************************************)
\* as ms4_to_coord, but numbering the quadrants row first: 1=SW, 2=NW, 3=SE, 4=NE
ms4_to_coord_rowfirst(c0, ndigits) ==
    LET c   == ljust(str(c0), 9)
        ms3 == ms3_to_coord_kw(AsText(Slice(c, 0, 8)), "ndigits", ndigits + 1)
    IN  IF ms3.exc # "none" THEN ms3
        ELSE IF ~IntParses(Slice(c, 8, 9)) THEN Raise("ValueError")
        ELSE LET lon_ms3 == FromRounded(ms3.pts[1][1], ndigits + 1)
                 lat_ms3 == FromRounded(ms3.pts[1][2], ndigits + 1)
                 i4  == IntValue(Slice(c, 8, 9))
                 lon == Plus(lon_ms3, FromRatio(((i4 - 1) \div 2) * 225, 36000))
                 lat == Plus(lat_ms3, FromRatio(((i4 - 1) % 2) * 15, 3600))
             IN  Corners(lon, lat, FromRatio(225, 36000), FromRatio(15, 3600), ndigits)

ms4_to_coord(c0, ndigits) ==
    LET c   == ljust(str(c0), 9)
        ms3 == ms3_to_coord_kw(AsText(Slice(c, 0, 8)), "ndigits", ndigits + 1)
    IN  IF ms3.exc # "none" THEN ms3
        ELSE IF ~IntParses(Slice(c, 8, 9)) THEN Raise("ValueError")
        ELSE LET lon_ms3 == FromRounded(ms3.pts[1][1], ndigits + 1)
                 lat_ms3 == FromRounded(ms3.pts[1][2], ndigits + 1)
                 i4  == IntValue(Slice(c, 8, 9))
                 lon == Plus(lon_ms3, FromRatio(((i4 - 1) % 2) * 225, 36000))
                 lat == Plus(lat_ms3, FromRatio(((i4 - 1) \div 2) * 15, 3600))
             IN  Corners(lon, lat, FromRatio(225, 36000), FromRatio(15, 3600), ndigits)

(***************************************************************************)
(* ms5_to_coord                                                            *)
(***************************************************************************)
ms5_to_coord(c0, ndigits) ==
    LET c   == ljust(str(c0), 10)
        ms3 == ms3_to_coord_kw(AsText(Slice(c, 0, 8)), "ndgits", ndigits + 1)
    IN  IF ms3.exc # "none" THEN ms3
        ELSE IF ~IntParses(Slice(c, 8, 9)) \/ ~IntParses(Slice(c, 9, 10))
             THEN Raise("ValueError")
        ELSE LET lon_ms3 == FromRounded(ms3.pts[1][1], ndigits + 1)
                 lat_ms3 == FromRounded(ms3.pts[1][2], ndigits + 1)
                 i4  == IntValue(Slice(c, 8, 9))
                 i5  == IntValue(Slice(c, 9, 10))
                 lon == Plus(Plus(lon_ms3, FromRatio(((i4 - 1) % 2) * 2 * 1125, 360000)),
                             FromRatio(((i5 - 1) % 2) * 1125 * 2, 360000))
                 lat == Plus(Plus(lat_ms3, FromRatio(((i4 - 1) \div 2) * 2 * 75, 36000)),
                             FromRatio(((i5 - 1) \div 2) * 75 * 2, 36000))
             IN  Corners(lon, lat, FromRatio(1125, 360000), FromRatio(75, 36000), ndigits)

(***************************************************************************)
(* msjma5k_to_coord                                                        *)
(***************************************************************************)
msjma5k_to_coord(c0, ndigits) ==
    LET c   == ljust(str(c0), 8)
        ms3 == ms3_to_coord_kw(AsText(Slice(c, 0, 8)), "ndigits", ndigits + 1)
    IN  IF ms3.exc # "none" THEN ms3
        ELSE LET lon_ms3 == FromRounded(ms3.pts[1][1], ndigits + 1)
                 lat_ms3 == FromRounded(ms3.pts[1][2], ndigits + 1)
                 dx  == FromRatio(625, 10000)
                 dy  == FromRatio(5, 100)
                 lon == Plus(lon_ms3, dx)
                 lat == Plus(lat_ms3, dy)
             IN  Corners(lon, lat, dx, dy, ndigits)

(***************************************************************************)
(* Polygon builders: the four corners, then the first corner again.        *)
(***************************************************************************)
Ring(r) == IF r.exc # "none" THEN r ELSE ReturnPts(r.pts \o <<r.pts[1]>>)

ms3_to_polygon(c0, ndigits) == Ring(ms3_to_coord_kw(c0, "ndigits", ndigits))

ms4_to_polygon(c0, ndigits) == Ring(ms4_to_coord(c0, ndigits))

ms5_to_polygon(c0, ndigits) == Ring(ms5_to_coord(c0, ndigits))

msjma5k_to_polygon(c0, ndigits) == Ring(msjma5k_to_coord(c0, ndigits))

(***************************************************************************)
(* The codes a caller passes.  Two-digit fields come from both ends of     *)
(* 0..99 and from a cell over Japan, one-digit row fields from all of      *)
(* 0..9; sub-cell digits range over 0..TailMax; shorter codes, codes with  *)
(* a sign, a blank or a letter, and integers are included.                 *)
(***************************************************************************)
RowVals == (0..RowSpan) \cup {53} \cup ((99 - RowSpan)..99)

ColVals == (0..ColSpan) \cup {39} \cup ((99 - ColSpan)..99)

Code8(iy1, ix1, iy2, ix2, iy3, ix3) ==
    <<DigitChar(iy1 \div 10), DigitChar(iy1 % 10),
      DigitChar(ix1 \div 10), DigitChar(ix1 % 10),
      DigitChar(iy2), DigitChar(ix2), DigitChar(iy3), DigitChar(ix3)>>

FullCodes ==
    { Code8(iy1, ix1, iy2, ix2, iy3, ix3) :
        iy1 \in RowVals, ix1 \in ColVals, iy2 \in 0..9, ix2 \in {0, 7},
        iy3 \in 0..9, ix3 \in {0, 4, 5, 9} }

BaseCodes ==
    { Code8(iy1, ix1, iy2, ix2, iy3, ix3) :
        iy1 \in RowVals, ix1 \in ColVals, iy2 \in {0, 7}, ix2 \in {7},
        iy3 \in {0, 4, 9}, ix3 \in {4} }

SubCodes ==
    { b \o <<DigitChar(i4)>> : b \in BaseCodes, i4 \in 0..TailMax }
    \cup { b \o <<DigitChar(i4), DigitChar(i5)>> :
             b \in BaseCodes, i4 \in 0..TailMax, i5 \in 0..TailMax }

ShortCodes == { SubSeq(b, 1, n) : b \in BaseCodes, n \in 0..7 }

OddChars == {"-", "+", " ", "x"}

Subst(s, p, ch) == [s EXCEPT ![p] = ch]

OddCodes ==
    { Subst(b, p, ch) : b \in BaseCodes, p \in 1..8, ch \in OddChars }
    \cup { Subst(Subst(b, p, c1), p + 1, c2) :
             b \in BaseCodes, p \in {1, 3}, c1 \in OddChars, c2 \in OddChars }
    \cup { b \o <<ch>> : b \in BaseCodes, ch \in OddChars }
    \cup { SubSeq(b, 1, n) \o <<ch>> : b \in BaseCodes, n \in {0, 1, 4}, ch \in OddChars }

IntCodes == {-1, 0, 7, 5339, 53394611, 533946112}

Inputs ==
    { AsText(t) : t \in FullCodes \cup SubCodes \cup ShortCodes \cup OddCodes }
    \cup { [isInt |-> TRUE, num |-> n, text |-> <<>>] : n \in IntCodes }

NDIGITS == 6

(***************************************************************************)
(* The library keeps no state between calls: a behaviour is one caller     *)
(* holding one code and making one call, whose outcome is recorded.        *)
(***************************************************************************)
Init ==
    /\ code \in Inputs
    /\ fn = "none"
    /\ ret = Raise("none")

Call_ms3_to_msjma5k ==
    /\ fn = "none"
    /\ fn' = "ms3_to_msjma5k"
    /\ ret' = ms3_to_msjma5k(code)
    /\ UNCHANGED code

Call_ms3_to_coord ==
    /\ fn = "none"
    /\ fn' = "ms3_to_coord"
    /\ ret' = ms3_to_coord(code, NDIGITS)
    /\ UNCHANGED code

Call_ms4_to_coord ==
    /\ fn = "none"
    /\ fn' = "ms4_to_coord"
    /\ ret' = ms4_to_coord(code, NDIGITS)
    /\ UNCHANGED code

Call_ms5_to_coord ==
    /\ fn = "none"
    /\ fn' = "ms5_to_coord"
    /\ ret' = ms5_to_coord(code, NDIGITS)
    /\ UNCHANGED code

Call_msjma5k_to_coord ==
    /\ fn = "none"
    /\ fn' = "msjma5k_to_coord"
    /\ ret' = msjma5k_to_coord(code, NDIGITS)
    /\ UNCHANGED code

Call_ms3_to_polygon ==
    /\ fn = "none"
    /\ fn' = "ms3_to_polygon"
    /\ ret' = ms3_to_polygon(code, NDIGITS)
    /\ UNCHANGED code

Call_ms4_to_polygon ==
    /\ fn = "none"
    /\ fn' = "ms4_to_polygon"
    /\ ret' = ms4_to_polygon(code, NDIGITS)
    /\ UNCHANGED code

Call_ms5_to_polygon ==
    /\ fn = "none"
    /\ fn' = "ms5_to_polygon"
    /\ ret' = ms5_to_polygon(code, NDIGITS)
    /\ UNCHANGED code

Call_msjma5k_to_polygon ==
    /\ fn = "none"
    /\ fn' = "msjma5k_to_polygon"
    /\ ret' = msjma5k_to_polygon(code, NDIGITS)
    /\ UNCHANGED code

Next ==
    \/ Call_ms3_to_msjma5k
    \/ Call_ms3_to_coord
    \/ Call_ms4_to_coord
    \/ Call_ms5_to_coord
    \/ Call_msjma5k_to_coord
    \/ Call_ms3_to_polygon
    \/ Call_ms4_to_polygon
    \/ Call_ms5_to_polygon
    \/ Call_msjma5k_to_polygon

Spec == Init /\ [][Next]_vars

(***************************************************************************)
(* Vocabulary of the properties.                                           *)
(***************************************************************************)
Txt == str(code)

Zeros(k) == [i \in 1..k |-> "0"]

\* the code is exactly n characters, all of them decimal digits
DigitsOfLen(n) == Len(Txt) = n /\ AllDigits(Txt)

In == Indices(Txt)

IY == In.iy1 * 80 + In.iy2 * 10 + In.iy3

IX == In.ix1 * 80 + In.ix2 * 10 + In.ix3

\* the snapped row index still has a two-digit first field: 8003 is the last
\* row index below 8004 = 100 * 80 + 4, the first multiple of 6 from 8000 on
RowFits == IY <= 8003

Transcoded == fn = "ms3_to_msjma5k" /\ DigitsOfLen(8)

FixedWidth8 ==
    /\ ret.exc = "none"
    /\ Len(ret.text) = 8
    /\ AllDigits(ret.text)
    /\ Slice(ret.text, 2, 4) = Slice(Txt, 2, 4)
    /\ Slice(ret.text, 5, 6) = Slice(Txt, 5, 6)
    /\ ret.text[8] \in {"0", "5"}

\* C2 as stated: every 8-digit code is transcoded to exactly 8 decimal digits,
\* laid out as iy1(2) ix1(2) iy2(1) ix2(1) iy3(1) ix3(1)
C2_FixedWidthAllCodes == Transcoded => FixedWidth8

\* C2 amended: every 8-digit code whose row index iy1*80+iy2*10+iy3 is at
\* most 8003 is transcoded to exactly 8 decimal digits in the fixed layout
C2_FixedWidthRowFits == (Transcoded /\ RowFits) => FixedWidth8

\* the last row index that fits, in the northernmost first-level row
C2_Witness == Transcoded /\ IY = 8003 /\ In.iy1 = 99 /\ Len(ret.text) = 8

Idempotent == ms3_to_msjma5k(AsText(ret.text)) = ret

\* C3 as stated: transcoding the transcoder's output of any 8-digit code gives
\* that output again
C3_IdempotentAllCodes == Transcoded => (ret.exc = "none" /\ Idempotent)

\* C3 amended: transcoding the transcoder's output gives that output again,
\* for every 8-digit code whose row index is at most 8003
C3_IdempotentRowFits == (Transcoded /\ RowFits) => (ret.exc = "none" /\ Idempotent)

\* a code that the first transcoding moved in its row and in its column
C3_Witness ==
    /\ Transcoded /\ RowFits /\ IY % 6 = 5 /\ In.ix3 = 9
    /\ ret.text # Txt

Out == Indices(ljust(ret.text, 8))

SnapsToBlock ==
    /\ ret.exc = "none"
    /\ FieldsParse(ljust(ret.text, 8))
    /\ Out.iy1 * 80 + Out.iy2 * 10 + Out.iy3 = 6 * (IY \div 6)
    /\ Out.ix1 * 80 + Out.ix2 * 10 + Out.ix3 = 5 * (IX \div 5)
    /\ Out.ix1 = In.ix1
    /\ Out.ix2 = In.ix2

\* C9 as stated: the output of any 8-digit code decodes to the row index
\* 6*floor(IY/6) and the column index 5*floor(IX/5), ix1 and ix2 unchanged
C9_SnapsAllCodes == Transcoded => SnapsToBlock

\* C9 amended: the same, for every 8-digit code whose row index is at most 8003
C9_SnapsRowFits == (Transcoded /\ RowFits) => SnapsToBlock

\* the snap borrows across the second-level row digit and moves the column
C9_Witness ==
    /\ Transcoded /\ RowFits /\ In.iy2 = 7 /\ In.iy3 = 1 /\ In.iy1 = 53
    /\ Out.iy2 = 6 /\ In.ix3 = 9 /\ Out.ix3 = 5

(***************************************************************************)
(* Cells and their corners.  Points are <<longitude, latitude>> in units   *)
(* of 10^-NDIGITS degree; pts[1..4] are the SW, NW, NE and SE corners.     *)
(***************************************************************************)
First8 == AsText(Slice(ljust(Txt, 8), 0, 8))

Parent == ms3_to_coord(First8, NDIGITS)

QuadrantDigit(ch) == ch \in {"1", "2", "3", "4"}

\* a valid code of each level: all digits, sub-cell digits in 1..4
Valid3 == DigitsOfLen(8)

Valid4 == DigitsOfLen(9) /\ QuadrantDigit(Txt[9])

Valid5 == DigitsOfLen(10) /\ QuadrantDigit(Txt[9]) /\ QuadrantDigit(Txt[10])

\* the exact corner of the 3rd-level cell of the code, moved east by ex / ed
\* and north by ny / nd degrees, rounded as the library rounds
Exact(ex, ed, ny, nd) ==
    <<round(Plus(FromRatio(IX * 45 + 100 * 3600, 3600), FromRatio(ex, ed)), NDIGITS),
      round(Plus(FromRatio(IY * 30, 3600), FromRatio(ny, nd)), NDIGITS)>>

Within(inner, outer) ==
    /\ outer[1][1] <= inner[1][1] /\ outer[1][2] <= inner[1][2]
    /\ inner[3][1] <= outer[3][1] /\ inner[3][2] <= outer[3][2]

ClosedRing(corners) ==
    /\ ret.exc = "none"
    /\ corners.exc = "none"
    /\ Len(ret.pts) = 5
    /\ SubSeq(ret.pts, 1, 4) = corners.pts
    /\ ret.pts[5] = ret.pts[1]

\* C1: for a valid code of its level every polygon builder returns 5 points,
\* the four corners of the matching *_to_coord and the first corner again
C1_PolygonsClosed ==
    /\ (fn = "ms3_to_polygon" /\ Valid3) => ClosedRing(ms3_to_coord(code, NDIGITS))
    /\ (fn = "ms4_to_polygon" /\ Valid4) => ClosedRing(ms4_to_coord(code, NDIGITS))
    /\ (fn = "ms5_to_polygon" /\ Valid5) => ClosedRing(ms5_to_coord(code, NDIGITS))
    /\ (fn = "msjma5k_to_polygon" /\ Valid3)
          => ClosedRing(msjma5k_to_coord(code, NDIGITS))

\* C4: the rectangle of a valid 5th-level code lies within its parent
\* 3rd-level cell
C4_FifthWithinParent ==
    (fn = "ms5_to_coord" /\ Valid5)
        => (ret.exc = "none" /\ Len(ret.pts) = 4 /\ Within(ret.pts, Parent.pts))

\* C6: the rectangle of a JMA-5km code has the SW corner of the 3rd-level cell
\* of the same code and extends 0.0625 deg east and 0.05 deg north of it
C6_JmaStartsAtThirdLevelCorner ==
    (fn = "msjma5k_to_coord" /\ Valid3)
        => /\ ret.exc = "none"
           /\ ret.pts[1] = Parent.pts[1]
           /\ ret.pts[3] = Exact(625, 10000, 5, 100)

\* C7: ms3_to_coord returns SW, NW, NE, SE of the cell whose SW corner is
\* (100 + IX*45/3600, IY*30/3600) and whose size is 45/3600 by 30/3600 deg
C7_ThirdLevelCorners ==
    (fn = "ms3_to_coord" /\ Valid3)
        => LET sw == Exact(0, 1, 0, 1)
               ne == Exact(45, 3600, 30, 3600)
           IN  /\ ret.exc = "none"
               /\ ret.pts = <<sw, <<sw[1], ne[2]>>, ne, <<ne[1], sw[2]>> >>
               /\ ret.pts[2][1] = ret.pts[1][1] /\ ret.pts[2][2] = ret.pts[3][2]
               /\ ret.pts[4][1] = ret.pts[3][1] /\ ret.pts[4][2] = ret.pts[1][2]
               /\ ret.pts[1][1] <= ret.pts[3][1] /\ ret.pts[1][2] <= ret.pts[3][2]

\* a cell over Japan whose latitude bounds are both rounded
C7_Witness ==
    /\ fn = "ms3_to_coord" /\ Valid3 /\ In.iy1 = 53 /\ In.ix1 = 39
    /\ IY % 3 = 1 /\ ret.exc = "none"
    /\ ret.pts[1][1] < ret.pts[3][1] /\ ret.pts[1][2] < ret.pts[3][2]

\* C5: ms4_to_coord returns the quadrant i4 (1=SW, 2=SE, 3=NW, 4=NE) of the
\* parent 3rd-level cell: its SW corner is the parent's plus ((i4-1) mod 2) *
\* 22.5/3600 deg east and ((i4-1) div 2) * 15/3600 deg north, its size is half
\* the parent's; the quadrants meet at the parent's centre, reach the parent's
\* corners and stay within the parent
C5_FourthLevelQuadrants ==
    (fn = "ms4_to_coord" /\ Valid4)
        => LET i4     == DigitVal(Txt[9])
               col    == (i4 - 1) % 2
               row    == (i4 - 1) \div 2
               centre == Exact(225, 36000, 15, 3600)
           IN  /\ ret.exc = "none"
               /\ Parent.exc = "none"
               /\ ret.pts[1] = Exact(col * 225, 36000, row * 15, 3600)
               /\ ret.pts[3] = Exact((col + 1) * 225, 36000, (row + 1) * 15, 3600)
               /\ ret.pts[2] = <<ret.pts[1][1], ret.pts[3][2]>>
               /\ ret.pts[4] = <<ret.pts[3][1], ret.pts[1][2]>>
               /\ Within(ret.pts, Parent.pts)
               /\ i4 = 1 => (ret.pts[1] = Parent.pts[1] /\ ret.pts[3] = centre)
               /\ i4 = 2 => (ret.pts[4] = Parent.pts[4] /\ ret.pts[2] = centre)
               /\ i4 = 3 => (ret.pts[2] = Parent.pts[2] /\ ret.pts[4] = centre)
               /\ i4 = 4 => (ret.pts[3] = Parent.pts[3] /\ ret.pts[1] = centre)

\* the north-west quadrant of a cell whose latitude bounds are rounded
C5_Witness ==
    /\ fn = "ms4_to_coord" /\ Valid4 /\ Txt[9] = "3" /\ IY % 3 = 2
    /\ ret.exc = "none" /\ ret.pts[2] = Parent.pts[2]

(***************************************************************************)
(* Padding and parsing.                                                    *)
(***************************************************************************)
Short(w) == AllDigits(Txt) /\ Len(Txt) < w

ZeroPadded(w) == AsText(Txt \o Zeros(w - Len(Txt)))

\* the first w characters of the code followed by zeros
FirstPadded(w) == AsText(SubSeq(Txt \o Zeros(w), 1, w))

Parsing == fn \in {"ms3_to_coord", "ms3_to_msjma5k"}

Padded8 == SubSeq(Txt \o Zeros(8), 1, 8)

\* C10 as stated: a character other than a decimal digit among the first 8
\* characters after padding makes the call fail with a parse error
C10_AnyNonDigitFails ==
    (Parsing /\ ~AllDigits(Padded8)) => ret.exc = "ValueError"

OneCharReadable(t) == IsDigit(t[1])

TwoCharReadable(t) ==
    \/ IsDigit(t[1]) /\ IsDigit(t[2])
    \/ t[1] \in {"+", "-", " "} /\ IsDigit(t[2])
    \/ IsDigit(t[1]) /\ t[2] = " "

Readable ==
    LET f == Fields(Padded8)
    IN  /\ TwoCharReadable(f.iy1) /\ TwoCharReadable(f.ix1)
        /\ OneCharReadable(f.iy2) /\ OneCharReadable(f.ix2)
        /\ OneCharReadable(f.iy3) /\ OneCharReadable(f.ix3)

\* C10 amended: the call fails with a parse error, returning nothing, when a
\* one-character field is not a digit or a two-character field is none of:
\* two digits, a digit after a sign or a blank, a digit before a blank;
\* otherwise, also with such a sign or blank, it returns a result
C10_UnreadableFieldFails ==
    Parsing => /\ ~Readable => ret = Raise("ValueError")
               /\ Readable => ret.exc = "none"

\* a sign in a one-character field
C10_Witness ==
    /\ fn = "ms3_to_coord" /\ ~AllDigits(Padded8) /\ Padded8[5] = "-"
    /\ ret.exc = "ValueError"

====
